---- MODULE Spec2Model ----
(***************************************************************************)
(* First-fit free-list allocator of wasabi (src/src/allocator.rs).         *)
(*                                                                         *)
(* Memory is modelled as the set of Header records the allocator has       *)
(* written, indexed by the address each one lives at.  A link              *)
(* (Option<Box<Header>>) is the address of the next Header, or 0 for None. *)
(* The size type is scaled down from 64 bits to USIZE_BITS bits; addresses *)
(* and sizes of the modelled machine stay below 2^USIZE_BITS.              *)
(***************************************************************************)
EXTENDS Integers, Sequences, FiniteSets, TLC

\* ---------------------------------------------------------------- bounds
USIZE_BITS == 16          \* width of usize in the model
MaxOps == 4               \* number of alloc/dealloc calls explored
MaxDescs == 2             \* longest memory map handed to init_with_mmap

\* ------------------------------------------------------------- constants
HEADER_SIZE == 32
PAGE_SIZE == 4096

NULL == 0                 \* null_mut::<u8>() and Option<Box<Header>>::None
NONE == -1                \* Option::None / Result::Err of a usize value
PENDING == -2             \* a call that has not been made yet

USIZE_MOD == 2 ^ USIZE_BITS

\* variant: the value is not clamped from below
max_unclamped(a, b) == a

max(a, b) == IF a >= b THEN a ELSE b

\* ------------------------------------------------------- size normalizer
\* usize::wrapping_sub
wrapping_sub(a, b) == (a - b + USIZE_MOD) % USIZE_MOD

\* usize::leading_zeros: zero bits above the highest set bit
RECURSIVE bit_length(_)
bit_length(x) == IF x = 0 THEN 0 ELSE 1 + bit_length(x \div 2)

leading_zeros(x) == USIZE_BITS - bit_length(x)

\* usize::checked_shl: None when the shift amount is >= the bit width
checked_shl(x, s) == IF s >= USIZE_BITS THEN NONE ELSE (x * 2 ^ s) % USIZE_MOD

\* variant: usize::next_power_of_two semantics, 0 rounds up to 1
round_up_zero_to_one(v) ==
    IF v = 0 THEN 1
    ELSE checked_shl(1, USIZE_BITS - leading_zeros(wrapping_sub(v, 1)))

\* variant: the argument is not decremented before counting its bits
round_up_no_decrement(v) ==
    checked_shl(1, USIZE_BITS - leading_zeros(v))

round_up_to_nearest_pow2(v) ==
    checked_shl(1, USIZE_BITS - leading_zeros(wrapping_sub(v, 1)))

\* ----------------------------------------------------------------- state
VARIABLES
    first_header,   \* FirstFitAllocator.first_header: address of the head, or NULL
    mem,            \* Header records in memory: address -> [next_header, size, is_allocated]
    memory_map,     \* the descriptors init_with_mmap was called with
    initialized,    \* init_with_mmap has run
    live,           \* payload address -> normalized size of blocks handed out and not yet freed
    last,           \* the last call and what it returned
    panicked,       \* a panic!/assert! fired
    stray,          \* addresses written through a pointer that is no Header
    nops,           \* calls made so far
    returned,       \* every address a successful alloc has handed out so far
    pow2_v,         \* argument handed to round_up_to_nearest_pow2
    pow2_r,         \* its result for pow2_v
    pow2_lo         \* its result for pow2_v - 1

alloc_vars == <<first_header, mem, memory_map, initialized, live, last, panicked, stray, nops,
               returned>>
pow2_vars == <<pow2_v, pow2_r, pow2_lo>>
vars == <<alloc_vars, pow2_vars>>

\* -------------------------------------------------------------- Header
\* variant: size is taken as the payload size, the Header counted on top
end_addr_plus_header(m, self) == self + m[self].size + HEADER_SIZE

end_addr(m, self) == self + m[self].size

is_allocated(m, self) == m[self].is_allocated

\* variant: the bound leaves out the alignment loss
can_provide_no_align(m, self, size, align) ==
    m[self].size >= size + HEADER_SIZE * 2

\* variant: the bound leaves out the padding Header and the alignment loss
can_provide_exact(m, self, size, align) ==
    m[self].size >= size + HEADER_SIZE

can_provide(m, self, size, align) ==
    m[self].size >= size + HEADER_SIZE * 2 + align

\* Header::new_from_addr: writes a zeroed Header at addr
new_from_addr(m, addr) ==
    [a \in (DOMAIN m) \cup {addr} |->
        IF a = addr THEN [next_header |-> NULL, size |-> 0, is_allocated |-> FALSE]
        ELSE m[a]]

\* variant: the address is rounded up to the alignment
align_down_rounds_up(addr, align) == addr + ((align - (addr % align)) % align)

\* variant: the address is not masked
align_down_unmasked(addr, align) == addr

\* addr & !(align - 1) for a power-of-two align
align_down(addr, align) == addr - (addr % align)

\* Header::provide: [ret, mem, panic]
provide(m, self, req_size, req_align) ==
    LET r == round_up_to_nearest_pow2(req_size) IN
    IF r = NONE THEN [ret |-> NONE, mem |-> m, panic |-> FALSE]
    ELSE
    LET size == max(r, HEADER_SIZE)
        align == max(req_align, HEADER_SIZE)
    IN
    IF is_allocated(m, self) \/ ~can_provide(m, self, size, align)
    THEN [ret |-> NONE, mem |-> m, panic |-> FALSE]
    ELSE
    LET allocated_addr == align_down(end_addr(m, self) - size, align)
        hfa == allocated_addr - HEADER_SIZE
        m1 == new_from_addr(m, hfa)
        m2 == [m1 EXCEPT ![hfa].size = size + HEADER_SIZE,
                         ![hfa].next_header = m[self].next_header]
        hfa_end == hfa + size + HEADER_SIZE
        pad == hfa_end /= end_addr(m, self)
        m3 == IF pad
              THEN LET m3a == new_from_addr(m2, hfa_end) IN
                   [m3a EXCEPT ![hfa_end].is_allocated = FALSE,
                               ![hfa_end].size = end_addr(m, self) - hfa_end,
                               ![hfa_end].next_header = m2[hfa].next_header,
                               ![hfa].next_header = hfa_end]
              ELSE m2
        size_used == (size + HEADER_SIZE)
                     + (IF pad THEN end_addr(m, self) - hfa_end ELSE 0)
    IN
    IF ~(m[self].size >= size_used + HEADER_SIZE)
    THEN [ret |-> NONE, mem |-> m3, panic |-> TRUE]
    ELSE [ret |-> allocated_addr,
          mem |-> [m3 EXCEPT ![self].size = m[self].size - size_used,
                             ![self].next_header = hfa],
          panic |-> FALSE]

\* ------------------------------------------------------ FirstFitAllocator
\* the loop of alloc_with_options, from the Header at `header`
RECURSIVE alloc_loop(_, _, _, _)
\* variant: the walk gives up after the first Header
alloc_loop_head_only(m, header, size, align) ==
    IF header = NULL THEN [ret |-> NULL, mem |-> m, panic |-> FALSE, visits |-> 0]
    ELSE LET p == provide(m, header, size, align) IN
         IF p.panic \/ p.ret /= NONE
         THEN [ret |-> p.ret, mem |-> p.mem, panic |-> p.panic, visits |-> 1]
         ELSE [ret |-> NULL, mem |-> m, panic |-> FALSE, visits |-> 1]

\* variant: a Header whose size fits the request exactly is handed out whole
alloc_loop_exact_fit(m, header, size, align) ==
    IF header = NULL THEN [ret |-> NULL, mem |-> m, panic |-> FALSE, visits |-> 0]
    ELSE IF /\ round_up_to_nearest_pow2(size) /= NONE
            /\ m[header].size = max(round_up_to_nearest_pow2(size), HEADER_SIZE) + HEADER_SIZE
            /\ (header + HEADER_SIZE) % max(align, HEADER_SIZE) = 0
         THEN [ret |-> header + HEADER_SIZE, mem |-> m, panic |-> FALSE, visits |-> 1]
    ELSE LET p == provide(m, header, size, align) IN
         IF p.panic \/ p.ret /= NONE
         THEN [ret |-> p.ret, mem |-> p.mem, panic |-> p.panic, visits |-> 1]
         ELSE LET rest == alloc_loop(m, m[header].next_header, size, align) IN
              [rest EXCEPT !.visits = @ + 1]

\* the result carries the number of Headers the loop called provide on
alloc_loop(m, header, size, align) ==
    IF header = NULL THEN [ret |-> NULL, mem |-> m, panic |-> FALSE, visits |-> 0]
    ELSE LET p == provide(m, header, size, align) IN
         IF p.panic \/ p.ret /= NONE
         THEN [ret |-> p.ret, mem |-> p.mem, panic |-> p.panic, visits |-> 1]
         ELSE LET rest == alloc_loop(m, m[header].next_header, size, align) IN
              [rest EXCEPT !.visits = @ + 1]

alloc_with_options(m, head, size, align) == alloc_loop(m, head, size, align)

\* variant: a region at address 0 gives up one Header instead of one page
add_free_skip_header_only(st, desc) ==
    LET start0 == desc.physical_start
        size0 == desc.number_of_pages * PAGE_SIZE
        start_addr == IF start0 = 0 THEN start0 + HEADER_SIZE ELSE start0
        size == IF start0 = 0 THEN max(size0 - HEADER_SIZE, 0) ELSE size0
    IN
    IF size <= PAGE_SIZE THEN st
    ELSE LET m1 == new_from_addr(st.mem, start_addr) IN
         [first_header |-> start_addr,
          mem |-> [m1 EXCEPT ![start_addr].next_header = st.first_header,
                             ![start_addr].is_allocated = FALSE,
                             ![start_addr].size = size]]

\* variant: a region of exactly one page is accepted
add_free_accept_one_page(st, desc) ==
    LET start0 == desc.physical_start
        size0 == desc.number_of_pages * PAGE_SIZE
        start_addr == IF start0 = 0 THEN start0 + PAGE_SIZE ELSE start0
        size == IF start0 = 0 THEN max(size0 - PAGE_SIZE, 0) ELSE size0
    IN
    IF size < PAGE_SIZE THEN st
    ELSE LET m1 == new_from_addr(st.mem, start_addr) IN
         [first_header |-> start_addr,
          mem |-> [m1 EXCEPT ![start_addr].next_header = st.first_header,
                             ![start_addr].is_allocated = FALSE,
                             ![start_addr].size = size]]

\* variant: the new head links to itself instead of the previous head
add_free_self_link(st, desc) ==
    LET start0 == desc.physical_start
        size0 == desc.number_of_pages * PAGE_SIZE
        start_addr == IF start0 = 0 THEN start0 + PAGE_SIZE ELSE start0
        size == IF start0 = 0 THEN max(size0 - PAGE_SIZE, 0) ELSE size0
    IN
    IF size <= PAGE_SIZE THEN st
    ELSE LET m1 == new_from_addr(st.mem, start_addr) IN
         [first_header |-> start_addr,
          mem |-> [m1 EXCEPT ![start_addr].next_header = start_addr,
                             ![start_addr].is_allocated = FALSE,
                             ![start_addr].size = size]]

\* variant: the previous head is not linked behind the new one
add_free_drop_link(st, desc) ==
    LET start0 == desc.physical_start
        size0 == desc.number_of_pages * PAGE_SIZE
        start_addr == IF start0 = 0 THEN start0 + PAGE_SIZE ELSE start0
        size == IF start0 = 0 THEN max(size0 - PAGE_SIZE, 0) ELSE size0
    IN
    IF size <= PAGE_SIZE THEN st
    ELSE LET m1 == new_from_addr(st.mem, start_addr) IN
         [first_header |-> start_addr,
          mem |-> [m1 EXCEPT ![start_addr].next_header = NULL,
                             ![start_addr].is_allocated = FALSE,
                             ![start_addr].size = size]]

\* add_free_from_descriptor: [first_header, mem]
add_free_from_descriptor(st, desc) ==
    LET start0 == desc.physical_start
        size0 == desc.number_of_pages * PAGE_SIZE
        start_addr == IF start0 = 0 THEN start0 + PAGE_SIZE ELSE start0
        size == IF start0 = 0 THEN max(size0 - PAGE_SIZE, 0) ELSE size0
    IN
    IF size <= PAGE_SIZE THEN st
    ELSE LET m1 == new_from_addr(st.mem, start_addr) IN
         [first_header |-> start_addr,
          mem |-> [m1 EXCEPT ![start_addr].next_header = st.first_header,
                             ![start_addr].is_allocated = FALSE,
                             ![start_addr].size = size]]

\* init_with_mmap: the loop over the descriptors
RECURSIVE init_loop(_, _, _)
init_loop(st, map, i) ==
    IF i > Len(map) THEN st
    ELSE IF map[i].memory_type /= "CONVENTIONAL_MEMORY"
         THEN init_loop(st, map, i + 1)
         ELSE init_loop(add_free_from_descriptor(st, map[i]), map, i + 1)

\* ---------------------------------------------------------------- inputs
MemoryTypes == {"CONVENTIONAL_MEMORY", "RESERVED_MEMORY_TYPE"}
RegionStarts == {0, 4 * PAGE_SIZE}
RegionPages == {2, 3}
Descriptors ==
    {d \in [memory_type : MemoryTypes, physical_start : RegionStarts,
            number_of_pages : RegionPages] :
        d.memory_type /= "CONVENTIONAL_MEMORY" => d.number_of_pages = 3}

\* firmware memory maps: descriptors at distinct, non-overlapping places
MemoryMaps ==
    {s \in UNION {[1..n -> Descriptors] : n \in 0..MaxDescs} :
        \A i, j \in 1..Len(s) : i /= j => s[i].physical_start /= s[j].physical_start}

\* the Layouts callers ask for: <<size, align>>, align a power of two
Layouts == {<<0, 1>>, <<1, 1>>, <<1, 64>>, <<1, 4096>>, <<128, 64>>,
            <<4096, 1>>, <<4096, 4096>>, <<8192, 1>>,
            <<2 ^ (USIZE_BITS - 1) + 1, 1>>}

EmptyMem == [a \in {} |-> 0]

NoCall == [op |-> "none", size |-> 0, align |-> 0, ptr |-> NULL, ret |-> NULL, visits |-> 0]

\* --------------------------------------------------------------- actions
Init ==
    /\ first_header = NULL
    /\ mem = EmptyMem
    /\ memory_map = <<>>
    /\ initialized = FALSE
    /\ live = EmptyMem
    /\ last = NoCall
    /\ panicked = FALSE
    /\ stray = {}
    /\ nops = 0
    /\ returned = {}
    /\ pow2_v = 0
    /\ pow2_r = PENDING
    /\ pow2_lo = PENDING

init_with_mmap ==
    /\ ~initialized
    /\ ~panicked
    /\ \E map \in MemoryMaps :
         LET st == init_loop([first_header |-> first_header, mem |-> mem], map, 1) IN
         /\ first_header' = st.first_header
         /\ mem' = st.mem
         /\ memory_map' = map
    /\ initialized' = TRUE
    /\ last' = [NoCall EXCEPT !.op = "init"]
    /\ UNCHANGED <<live, panicked, stray, nops, returned, pow2_vars>>

\* GlobalAlloc::alloc
alloc ==
    /\ ~panicked
    /\ nops < MaxOps
    /\ \E layout \in Layouts :
         LET size == layout[1]
             align == layout[2]
         IN
         \E r \in {alloc_with_options(mem, first_header, size, align)} :
         /\ mem' = r.mem
         /\ panicked' = r.panic
         /\ last' = [op |-> "alloc", size |-> size, align |-> align, ptr |-> NULL,
                     ret |-> IF r.panic THEN NONE ELSE r.ret, visits |-> r.visits]
         /\ returned' = IF r.panic \/ r.ret = NULL THEN returned
                        ELSE returned \cup {r.ret}
         /\ live' = IF r.panic \/ r.ret = NULL THEN live
                    ELSE [p \in (DOMAIN live) \cup {r.ret} |->
                            IF p = r.ret
                            THEN max(round_up_to_nearest_pow2(size), HEADER_SIZE)
                            ELSE live[p]]
    /\ nops' = nops + 1
    /\ UNCHANGED <<first_header, memory_map, initialized, stray, pow2_vars>>

\* Header::from_allocated_region
from_allocated_region(addr) == addr - HEADER_SIZE

\* variant: the freed Header absorbs a free Header that starts where it ends
dealloc_coalesce ==
    /\ ~panicked
    /\ nops < MaxOps
    /\ \E ptr \in DOMAIN live :
         LET region == from_allocated_region(ptr)
             next == mem[region].next_header
             merge == /\ next /= NULL
                      /\ next = region + mem[region].size
                      /\ ~mem[next].is_allocated
         IN
         /\ mem' = IF merge
                   THEN [mem EXCEPT ![region].is_allocated = FALSE,
                                    ![region].size = @ + mem[next].size,
                                    ![region].next_header = mem[next].next_header]
                   ELSE [mem EXCEPT ![region].is_allocated = FALSE]
         /\ live' = [p \in (DOMAIN live) \ {ptr} |-> live[p]]
         /\ last' = [NoCall EXCEPT !.op = "dealloc", !.ptr = ptr]
    /\ nops' = nops + 1
    /\ UNCHANGED <<first_header, memory_map, initialized, panicked, stray, returned, pow2_vars>>

\* variant: the freed Header is taken out of the chain
dealloc_unlink ==
    /\ ~panicked
    /\ nops < MaxOps
    /\ \E ptr \in DOMAIN live :
         LET region == from_allocated_region(ptr) IN
         /\ mem' = [a \in DOMAIN mem |->
                      IF a = region THEN [mem[a] EXCEPT !.is_allocated = FALSE]
                      ELSE IF mem[a].next_header = region
                           THEN [mem[a] EXCEPT !.next_header = mem[region].next_header]
                           ELSE mem[a]]
         /\ live' = [p \in (DOMAIN live) \ {ptr} |-> live[p]]
         /\ last' = [NoCall EXCEPT !.op = "dealloc", !.ptr = ptr]
    /\ nops' = nops + 1
    /\ UNCHANGED <<first_header, memory_map, initialized, panicked, stray, returned, pow2_vars>>

\* variant: the Header is written afresh, as new_from_addr does
dealloc_rewrite ==
    /\ ~panicked
    /\ nops < MaxOps
    /\ \E ptr \in DOMAIN live :
         LET region == from_allocated_region(ptr) IN
         /\ mem' = new_from_addr(mem, region)
         /\ live' = [p \in (DOMAIN live) \ {ptr} |-> live[p]]
         /\ last' = [NoCall EXCEPT !.op = "dealloc", !.ptr = ptr]
    /\ nops' = nops + 1
    /\ UNCHANGED <<first_header, memory_map, initialized, panicked, stray, returned, pow2_vars>>

\* GlobalAlloc::dealloc of a block the caller holds
dealloc ==
    /\ ~panicked
    /\ nops < MaxOps
    /\ \E ptr \in DOMAIN live :
         LET region == from_allocated_region(ptr) IN
         /\ mem' = [mem EXCEPT ![region].is_allocated = FALSE]
         /\ live' = [p \in (DOMAIN live) \ {ptr} |-> live[p]]
         /\ last' = [NoCall EXCEPT !.op = "dealloc", !.ptr = ptr]
    /\ nops' = nops + 1
    /\ UNCHANGED <<first_header, memory_map, initialized, panicked, stray, returned, pow2_vars>>

\* GlobalAlloc::dealloc handed a 32-byte aligned address whose preceding 32 bytes
\* hold no Header: the same three statements run, the flag write lands in
\* memory that is not a Header
StrayPtrs == {3 * PAGE_SIZE + 64, 4 * PAGE_SIZE + 64}

\* variant: the address is validated and the call panics
dealloc_stray_checked ==
    /\ ~panicked
    /\ nops < MaxOps
    /\ \E ptr \in StrayPtrs :
         LET region == from_allocated_region(ptr) IN
         /\ region \notin DOMAIN mem
         /\ last' = [NoCall EXCEPT !.op = "dealloc_stray", !.ptr = ptr]
    /\ panicked' = TRUE
    /\ nops' = nops + 1
    /\ UNCHANGED <<first_header, mem, memory_map, initialized, live, stray, returned, pow2_vars>>

dealloc_stray ==
    /\ ~panicked
    /\ nops < MaxOps
    /\ \E ptr \in StrayPtrs :
         LET region == from_allocated_region(ptr) IN
         /\ region \notin DOMAIN mem
         /\ stray' = stray \cup {region}
         /\ last' = [NoCall EXCEPT !.op = "dealloc_stray", !.ptr = ptr]
    /\ nops' = nops + 1
    /\ UNCHANGED <<first_header, mem, memory_map, initialized, live, panicked, returned, pow2_vars>>

Next == init_with_mmap \/ alloc \/ dealloc

Spec == Init /\ [][Next]_vars

NextMisuse == init_with_mmap \/ alloc \/ dealloc \/ dealloc_stray

SpecMisuse == Init /\ [][NextMisuse]_vars

\* ------------------------------------- a caller that allocates and frees forever
\* the Layouts the loop is run with: <<size, align>> that take a kilobyte or
\* more of a region, or nothing at all, so that the loop ends within a few
\* dozen calls
CycleLayouts == {<<0, 1>>, <<1, 4096>>, <<1024, 1>>, <<4096, 1>>, <<4096, 4096>>,
                 <<8192, 1>>, <<2 ^ (USIZE_BITS - 1) + 1, 1>>}

\* GlobalAlloc::alloc called by a loop that asks for the same Layout every time;
\* the loop is not held to MaxOps calls, so nops is left alone
cycle_alloc ==
    /\ initialized
    /\ ~panicked
    /\ \/ last.op \in {"init", "dealloc"}
       \/ last.op = "alloc" /\ last.ret = NULL
    /\ \E layout \in CycleLayouts :
         /\ last.op /= "init" => layout = <<last.size, last.align>>
         /\ \E r \in {alloc_with_options(mem, first_header, layout[1], layout[2])} :
              /\ mem' = r.mem
              /\ panicked' = r.panic
              /\ last' = [op |-> "alloc", size |-> layout[1], align |-> layout[2],
                          ptr |-> NULL, ret |-> IF r.panic THEN NONE ELSE r.ret,
                          visits |-> r.visits]
              /\ returned' = IF r.panic \/ r.ret = NULL THEN returned
                             ELSE returned \cup {r.ret}
              /\ live' = IF r.panic \/ r.ret = NULL THEN live
                         ELSE [p \in (DOMAIN live) \cup {r.ret} |->
                                 IF p = r.ret
                                 THEN max(round_up_to_nearest_pow2(layout[1]), HEADER_SIZE)
                                 ELSE live[p]]
    /\ UNCHANGED <<first_header, memory_map, initialized, stray, nops, pow2_vars>>

\* GlobalAlloc::dealloc of the block the loop has just been handed, with the
\* Layout it was asked for
cycle_dealloc ==
    /\ ~panicked
    /\ last.op = "alloc"
    /\ last.ret /= NULL
    /\ last.ret /= NONE
    /\ LET ptr == last.ret
           region == from_allocated_region(ptr)
       IN
       /\ mem' = [mem EXCEPT ![region].is_allocated = FALSE]
       /\ live' = [p \in (DOMAIN live) \ {ptr} |-> live[p]]
       /\ last' = [op |-> "dealloc", size |-> last.size, align |-> last.align,
                   ptr |-> ptr, ret |-> NULL, visits |-> 0]
    /\ UNCHANGED <<first_header, memory_map, initialized, panicked, stray, nops, returned,
                   pow2_vars>>

NextCycle == init_with_mmap \/ cycle_alloc \/ cycle_dealloc

\* the loop keeps running: a step that can be taken is taken
SpecCycle == Init /\ [][NextCycle]_vars /\ WF_vars(NextCycle)

\* ------------------------------------------- the size normalizer on its own
InitPow2 ==
    /\ first_header = NULL
    /\ mem = EmptyMem
    /\ memory_map = <<>>
    /\ initialized = FALSE
    /\ live = EmptyMem
    /\ last = NoCall
    /\ panicked = FALSE
    /\ stray = {}
    /\ nops = 0
    /\ returned = {}
    /\ pow2_v \in 0..(USIZE_MOD - 1)
    /\ pow2_r = PENDING
    /\ pow2_lo = PENDING

call_round_up ==
    /\ pow2_r = PENDING
    /\ pow2_r' = round_up_to_nearest_pow2(pow2_v)
    /\ pow2_lo' = IF pow2_v = 0 THEN NONE ELSE round_up_to_nearest_pow2(pow2_v - 1)
    /\ UNCHANGED <<pow2_v, alloc_vars>>

NextPow2 == call_round_up

SpecPow2 == InitPow2 /\ [][NextPow2]_vars

TypeOK ==
    /\ first_header \in 0..(USIZE_MOD - 1)
    /\ \A a \in DOMAIN mem : mem[a].size \in 0..(USIZE_MOD - 1)
    /\ panicked \in BOOLEAN


\* ---------------------------------------------- vocabulary of the properties
\* the Headers reachable from the head, in chain order
RECURSIVE chain_from(_, _)
chain_from(m, h) == IF h = NULL THEN <<>> ELSE <<h>> \o chain_from(m, m[h].next_header)

Chain == chain_from(mem, first_header)

\* the Headers of a chain as a set
ChainSet(ch) == {ch[i] : i \in 1..Len(ch)}

Pow2s == {2 ^ k : k \in 0..(USIZE_BITS - 1)}

\* the smallest power of two >= v, where one fits the size type
Pow2Ceil(v) == CHOOSE p \in Pow2s : p >= v /\ (p = 1 \/ p \div 2 < v)

SizeAccepted(v) == v >= 1 /\ v <= 2 ^ (USIZE_BITS - 1)

NormSize(size) == max(Pow2Ceil(size), HEADER_SIZE)
NormAlign(align) == max(align, HEADER_SIZE)

\* the bound of can_satisfy for a request on Header h of memory m
Meets(m, h, size, align) ==
    /\ SizeAccepted(size)
    /\ ~m[h].is_allocated
    /\ m[h].size >= NormSize(size) + 2 * HEADER_SIZE + NormAlign(align)

AllocStep == nops' = nops + 1 /\ last'.op = "alloc"
DeallocStep == nops' = nops + 1 /\ last'.op = "dealloc"
StrayStep == nops' = nops + 1 /\ last'.op = "dealloc_stray"

Succeeded(l) == l.op = "alloc" /\ l.ret /= NULL /\ l.ret /= NONE

\* the byte range [lo, hi) of the block behind payload address p of size s
BlockLo(p) == p - HEADER_SIZE
BlockHi(p, s) == p + s
Disjoint(lo1, hi1, lo2, hi2) == hi1 <= lo2 \/ hi2 <= lo1

\* what init is to register for a descriptor
AdjStart(d) == IF d.physical_start = 0 THEN PAGE_SIZE ELSE d.physical_start
AdjLen(d) == IF d.physical_start = 0
             THEN max(d.number_of_pages * PAGE_SIZE - PAGE_SIZE, 0)
             ELSE d.number_of_pages * PAGE_SIZE
Registrable(d) == d.memory_type = "CONVENTIONAL_MEMORY" /\ AdjLen(d) > PAGE_SIZE
DescsOf(map) == {map[i] : i \in 1..Len(map)}
Regions(map) == {[start |-> AdjStart(d), size |-> AdjLen(d)] : d \in {e \in DescsOf(map) : Registrable(e)}}

\* -------------------------------------------------------------------- C1
\* C1: any two blocks handed out and not yet deallocated occupy disjoint byte
\* ranges [p - 32, p + s), and allocate never returns an address that is live.
C1_LiveBlocksDisjoint ==
    \A p1, p2 \in DOMAIN live :
        p1 /= p2 => Disjoint(BlockLo(p1), BlockHi(p1, live[p1]),
                             BlockLo(p2), BlockHi(p2, live[p2]))

\* -------------------------------------------------------------------- C2
\* C2: a successful allocate returns a multiple of max(align, 32), and the block
\* [p - 32, p + size') lies inside one region registered by init.
C2_AlignedInsideRegion ==
    Succeeded(last) =>
        /\ last.ret % NormAlign(last.align) = 0
        /\ last.ret % last.align = 0
        /\ \E r \in Regions(memory_map) :
              /\ r.start <= BlockLo(last.ret)
              /\ BlockHi(last.ret, NormSize(last.size)) <= r.start + r.size

C2_Witness ==
    /\ Succeeded(last)
    /\ last.align = 4096
    /\ last.size = 1
    /\ Cardinality(DOMAIN mem) > 3

\* -------------------------------------------------------------------- C3
\* C3: when no Header of the chain can satisfy the request, allocate returns
\* null without a fatal error and leaves every Header and the head unchanged;
\* with no registered region every allocate returns null.
C3_NullWhenUnsatisfiable ==
    [][AllocStep =>
        /\ (\A h \in ChainSet(Chain) : ~Meets(mem, h, last'.size, last'.align))
              => /\ last'.ret = NULL
                 /\ ~panicked'
                 /\ mem' = mem
                 /\ first_header' = first_header
        /\ (initialized /\ Regions(memory_map) = {}) => last'.ret = NULL
      ]_vars

C3_Witness ==
    /\ last.op = "alloc"
    /\ last.ret = NULL
    /\ last.size = 4096
    /\ initialized
    /\ Len(Chain) >= 3

\* -------------------------------------------------------------------- C4
\* C4: allocate is served by the first Header in chain order that is free and
\* meets size >= size' + 64 + align'; it succeeds iff there is one, and the
\* Headers before the chosen one are unchanged.
FirstMeeting(ch, size, align) ==
    CHOOSE i \in 1..Len(ch) :
        /\ Meets(mem, ch[i], size, align)
        /\ \A j \in 1..(i - 1) : ~Meets(mem, ch[j], size, align)

C4_FirstFit ==
    [][AllocStep =>
        \E ch \in {Chain} :
        LET size == last'.size
            align == last'.align
            some == \E i \in 1..Len(ch) : Meets(mem, ch[i], size, align)
        IN
        /\ Succeeded(last') <=> some
        /\ some =>
             LET i == FirstMeeting(ch, size, align)
                 h == ch[i]
             IN
             /\ mem'[h].next_header = BlockLo(last'.ret)
             /\ h < BlockLo(last'.ret)
             /\ BlockHi(last'.ret, NormSize(size)) <= h + mem[h].size
             /\ \A j \in 1..(i - 1) : mem'[ch[j]] = mem[ch[j]]
      ]_vars

\* an allocation served by a Header that is not the head
C4_Witness ==
    /\ Succeeded(last)
    /\ first_header /= NULL
    /\ mem[first_header].next_header /= BlockLo(last.ret)
    /\ \E h \in DOMAIN mem : h /= first_header /\ mem[h].next_header = BlockLo(last.ret)

\* -------------------------------------------------------------------- C5
\* C5: no successful allocate returns a block whose header or payload overlaps
\* the first page [0, 4096); a successful allocate never returns address 0.
C5_FirstPageExcluded ==
    Succeeded(last) =>
        /\ last.ret /= 0
        /\ BlockLo(last.ret) >= PAGE_SIZE

\* an allocation served from the region of a descriptor that starts at 0
C5_Witness ==
    /\ Succeeded(last)
    /\ \E d \in DescsOf(memory_map) :
          /\ d.physical_start = 0
          /\ Registrable(d)
          /\ last.ret < d.number_of_pages * PAGE_SIZE

\* -------------------------------------------------------------------- C6
\* C6: init registers a Header for a descriptor iff it is usable and its
\* adjusted byte length is > 4096; the Header is free, at the adjusted start,
\* sized the adjusted length; an unregistered descriptor adds nothing and no
\* allocation is served from its address range.
C6_InitRegisters ==
    /\ last.op = "init" =>
          /\ DOMAIN mem = {r.start : r \in Regions(memory_map)}
          /\ \A r \in Regions(memory_map) :
                /\ mem[r.start].size = r.size
                /\ ~mem[r.start].is_allocated
          /\ Len(Chain) = Cardinality(Regions(memory_map))
    /\ Succeeded(last) =>
          \A d \in DescsOf(memory_map) :
              ~Registrable(d) =>
                  Disjoint(BlockLo(last.ret), BlockHi(last.ret, NormSize(last.size)),
                           d.physical_start,
                           d.physical_start + d.number_of_pages * PAGE_SIZE)

\* init was given a usable descriptor it registers and a usable one it rejects
C6_Witness ==
    /\ last.op = "init"
    /\ \E d \in DescsOf(memory_map) : Registrable(d)
    /\ \E d \in DescsOf(memory_map) :
          d.memory_type = "CONVENTIONAL_MEMORY" /\ ~Registrable(d)

\* -------------------------------------------------------------------- C7
\* C7: no operation increases the size of a Header or merges two Headers, and
\* allocate returns null whenever no single free Header meets the bound, even
\* when several free Headers together hold enough bytes.
C7_NeverCoalesced ==
    [][/\ \A h \in DOMAIN mem : h \in DOMAIN mem' /\ mem'[h].size <= mem[h].size
       /\ (AllocStep /\ \A h \in DOMAIN mem : ~Meets(mem, h, last'.size, last'.align))
             => last'.ret = NULL
      ]_vars

\* a request refused although two adjacent free Headers together hold enough
C7_Witness ==
    /\ last.op = "alloc"
    /\ last.ret = NULL
    /\ SizeAccepted(last.size)
    /\ live = EmptyMem
    /\ \E h1, h2 \in DOMAIN mem :
          /\ h1 + mem[h1].size = h2
          /\ ~mem[h1].is_allocated
          /\ ~mem[h2].is_allocated
          /\ mem[h1].size + mem[h2].size >=
                NormSize(last.size) + 2 * HEADER_SIZE + NormAlign(last.align)

\* -------------------------------------------------------------------- C8
\* C8: deallocate(p) sets is_allocated = false on the Header at p - 32 and
\* changes nothing else; the Header stays reachable from the head.
C8_DeallocFrame ==
    [][DeallocStep =>
        LET h == last'.ptr - HEADER_SIZE IN
        /\ h \in DOMAIN mem
        /\ mem' = [mem EXCEPT ![h].is_allocated = FALSE]
        /\ first_header' = first_header
        /\ chain_from(mem', first_header') = Chain
        /\ h \in ChainSet(Chain)
      ]_vars

C8_Witness ==
    /\ last.op = "dealloc"
    /\ Len(Chain) >= 3
    /\ ~mem[last.ptr - HEADER_SIZE].is_allocated

\* -------------------------------------------------------------------- C9
\* C9 (as claimed): deallocate of an address that is no payload address of a
\* Header ends in the fatal state and modifies no memory and no Header.
C9_StrayDeallocIsFatal ==
    [][StrayStep => panicked' /\ stray' = stray /\ mem' = mem]_vars

\* C9 (amended): deallocate of a 32-byte aligned address that is no payload
\* address of a Header is not detected: no fatal error, the flag write lands
\* at address - 32 outside every Header, the chain is unchanged.
C9_StrayDeallocUndetected ==
    [][StrayStep =>
        /\ ~panicked'
        /\ stray' = stray \cup {last'.ptr - HEADER_SIZE}
        /\ (last'.ptr - HEADER_SIZE) \notin DOMAIN mem
        /\ mem' = mem
        /\ first_header' = first_header
      ]_vars

C9_Witness ==
    /\ last.op = "dealloc_stray"
    /\ stray /= {}
    /\ Len(Chain) >= 2

\* ------------------------------------------------------------------- C10
\* C10: round_up_to_nearest_pow2(v) is the smallest power of two >= v for
\* 1 <= v <= 2^(w-1) and fails for v = 0 and v > 2^(w-1); it maps 1 to 1,
\* a power of two to itself, and is monotonic where it succeeds.
C10_RoundUp ==
    pow2_r /= PENDING =>
        /\ (pow2_v = 0 \/ pow2_v > 2 ^ (USIZE_BITS - 1)) => pow2_r = NONE
        /\ (1 <= pow2_v /\ pow2_v <= 2 ^ (USIZE_BITS - 1)) =>
              /\ pow2_r \in Pow2s
              /\ pow2_r >= pow2_v
              /\ \A q \in Pow2s : q >= pow2_v => pow2_r <= q
        /\ pow2_v = 1 => pow2_r = 1
        /\ pow2_v \in Pow2s => pow2_r = pow2_v
        /\ (pow2_r /= NONE /\ pow2_lo /= NONE) => pow2_lo <= pow2_r

C10_Witness ==
    /\ pow2_r /= PENDING
    /\ pow2_v = 2 ^ (USIZE_BITS - 1)
    /\ pow2_r = pow2_v
    /\ pow2_lo = pow2_r

\* ------------------------------------------------------------------- C11
\* C11: allocate with a size the normalizer rejects (0, or a size whose
\* rounded-up power of two does not fit) returns null in every chain state,
\* after visiting the whole chain, leaves every Header unchanged, never panics.
C11_RejectedSizeReturnsNull ==
    [][(AllocStep /\ ~SizeAccepted(last'.size)) =>
        /\ last'.ret = NULL
        /\ last'.visits = Len(Chain)
        /\ mem' = mem
        /\ first_header' = first_header
        /\ ~panicked'
      ]_vars

\* a rejected size met a chain that could have served an accepted one
C11_Witness ==
    /\ last.op = "alloc"
    /\ last.size = 0
    /\ last.ret = NULL
    /\ last.visits >= 3
    /\ \E h \in DOMAIN mem : Meets(mem, h, 1, 1)

\* ------------------------------------------------------------------- C12
\* C12: the chain reachable from the head is finite and acyclic in every
\* reachable state, so the first-fit walk visits each Header at most once and
\* ends with an address or null.
\* the Header reached from h after n links, NULL once the chain has ended
RECURSIVE Hop(_, _, _)
Hop(m, h, n) ==
    IF n = 0 \/ h = NULL THEN h
    ELSE IF h \notin DOMAIN m THEN NULL
    ELSE Hop(m, m[h].next_header, n - 1)

\* the walk from the head runs out within as many links as there are Headers,
\* and no Header occurs twice on it
ChainAcyclic ==
    /\ Hop(mem, first_header, Cardinality(DOMAIN mem)) = NULL
    /\ \E ch \in {Chain} : Cardinality(ChainSet(ch)) = Len(ch)

C12_WalkTerminates ==
    /\ ChainAcyclic
    /\ last.op = "alloc" =>
          /\ last.visits <= Cardinality(DOMAIN mem)
          /\ last.ret = NULL \/ Succeeded(last)
          /\ last.ret = NULL => last.visits = Len(Chain)

C12_Witness ==
    /\ last.op = "alloc"
    /\ last.ret = NULL
    /\ last.visits >= 4
    /\ SizeAccepted(last.size)

\* ------------------------------------------------------------------- C13
\* C13: the Header a successful allocate creates is marked allocated at
\* creation and stays allocated until deallocate is called on its payload.
C13_LiveHeadersAllocated ==
    \A p \in DOMAIN live : mem[p - HEADER_SIZE].is_allocated

\* ------------------------------------------------------------------- C14
\* C14: the assertion in provide never fails: whenever a Header passes the
\* check of can_provide, the split leaves it with size >= 32.
C14_AssertionHolds ==
    /\ ~panicked
    /\ \A h \in DOMAIN mem : \A layout \in Layouts :
          \E p \in {provide(mem, h, layout[1], layout[2])} :
              /\ ~p.panic
              /\ p.ret /= NONE => p.mem[h].size >= HEADER_SIZE

\* a split that had to create a padding Header and left the carved Header small
C14_Witness ==
    /\ Succeeded(last)
    /\ last.align = 4096
    /\ \E h \in DOMAIN mem :
          /\ mem[h].next_header = BlockLo(last.ret)
          /\ mem[h].size < PAGE_SIZE
          /\ mem[BlockLo(last.ret)].next_header = BlockHi(last.ret, NormSize(last.size))

\* ------------------------------------------------------------------- C15
\* C15: every Header has size >= 32, and every Header address and size is a
\* multiple of 32, so no padding Header of 1..31 bytes is ever created.
C15_HeaderGranularity ==
    \A h \in DOMAIN mem :
        /\ mem[h].size >= HEADER_SIZE
        /\ mem[h].size % HEADER_SIZE = 0
        /\ h % HEADER_SIZE = 0

\* a padding Header of the minimum size exists
C15_Witness ==
    /\ Succeeded(last)
    /\ \E h \in DOMAIN mem :
          /\ mem[BlockLo(last.ret)].next_header = h
          /\ h = BlockHi(last.ret, NormSize(last.size))
          /\ mem[h].size = HEADER_SIZE

\* -------------------------------------------------- vocabulary of a split
\* the largest multiple of a that is <= x
AlignDownTo(x, a) ==
    CHOOSE y \in {k * a : k \in ((x \div a) - 1)..((x \div a) + 1)} : y <= x /\ x < y + a

InitStep == ~initialized /\ initialized'

\* the chain ch with the Headers new put right behind its element h
InsertBehind(ch, h, new) ==
    LET i == CHOOSE k \in 1..Len(ch) : ch[k] = h IN
    SubSeq(ch, 1, i) \o new \o SubSeq(ch, i + 1, Len(ch))

\* the starts init registers for map[i..], the latest descriptor first
RECURSIVE NewestFirst(_, _)
NewestFirst(map, i) ==
    IF i > Len(map) THEN <<>>
    ELSE NewestFirst(map, i + 1)
         \o (IF Registrable(map[i]) THEN <<AdjStart(map[i])>> ELSE <<>>)

RECURSIVE SumSizes(_, _)
SumSizes(m, hs) ==
    IF hs = {} THEN 0
    ELSE LET h == CHOOSE x \in hs : TRUE IN m[h].size + SumSizes(m, hs \ {h})

\* ------------------------------------------------------------------- C16
\* C16: a successful split returns align_down(end_addr(self) - size', align'),
\* creates the new Header at that address - 32 with size size' + 32, size' >=
\* the requested size; the carved Header keeps its start and its own 32 bytes,
\* and the payload ends at or before the carved Header's former end.
C16_SplitGeometry ==
    [][(AllocStep /\ Succeeded(last')) =>
        LET p == last'.ret
            a == BlockLo(p)
            s == NormSize(last'.size)
            al == NormAlign(last'.align)
        IN
        /\ a \notin DOMAIN mem
        /\ \E h \in DOMAIN mem :
              /\ mem'[h].next_header = a
              /\ p = AlignDownTo(h + mem[h].size - s, al)
              /\ a >= h + HEADER_SIZE
              /\ p + s <= h + mem[h].size
        /\ mem'[a].size = s + HEADER_SIZE
        /\ s >= last'.size
        /\ DOMAIN mem \subseteq DOMAIN mem'
      ]_vars

\* a split whose payload address had to be aligned downward
C16_Witness ==
    /\ Succeeded(last)
    /\ last.align = 4096
    /\ \E h \in DOMAIN mem :
          /\ mem[h].next_header = BlockLo(last.ret)
          /\ mem[BlockLo(last.ret)].next_header /= NULL
          /\ mem[mem[BlockLo(last.ret)].next_header].size > PAGE_SIZE - 2 * HEADER_SIZE

\* ------------------------------------------------------------------- C17
\* C17: init prepends, so the chain is the registered regions newest first; a
\* split of H with successor N leaves H -> allocated -> N when the block ends
\* at H's old end and H -> allocated -> padding -> N otherwise, the padding
\* free and sized end(H_old) - end(allocated); nothing else changes a link.
C17_ChainOrder ==
    [][/\ InitStep => chain_from(mem', first_header') = NewestFirst(memory_map', 1)
       /\ (AllocStep /\ Succeeded(last')) =>
             LET a == BlockLo(last'.ret)
                 aend == BlockHi(last'.ret, NormSize(last'.size))
             IN
             \E h \in ChainSet(Chain) :
                 /\ mem'[h].next_header = a
                 /\ first_header' = first_header
                 /\ IF aend = h + mem[h].size
                    THEN chain_from(mem', first_header') = InsertBehind(Chain, h, <<a>>)
                    ELSE /\ chain_from(mem', first_header')
                              = InsertBehind(Chain, h, <<a, aend>>)
                         /\ ~mem'[aend].is_allocated
                         /\ mem'[aend].size = h + mem[h].size - aend
       /\ ((AllocStep /\ ~Succeeded(last')) \/ DeallocStep) =>
             /\ first_header' = first_header
             /\ DOMAIN mem' = DOMAIN mem
             /\ \A h \in DOMAIN mem : mem'[h].next_header = mem[h].next_header
      ]_vars

\* two regions were registered, and a Header with a successor was split with padding
C17_Witness ==
    /\ Succeeded(last)
    /\ Cardinality(Regions(memory_map)) = 2
    /\ LET a == BlockLo(last.ret)
           aend == BlockHi(last.ret, NormSize(last.size))
       IN /\ mem[a].next_header = aend
          /\ aend \in DOMAIN mem
          /\ mem[aend].next_header /= NULL

\* ------------------------------------------------------------------- C18
\* C18: a Header is never removed: every Header once reachable from the head
\* stays reachable, the number of Headers never decreases, and a Header's
\* address never changes.
C18_NeverRemoved ==
    [][/\ ChainSet(Chain) \subseteq ChainSet(chain_from(mem', first_header'))
       /\ Len(chain_from(mem', first_header')) >= Len(Chain)
       /\ DOMAIN mem \subseteq DOMAIN mem'
      ]_vars

\* a block in the middle of the chain was freed and is still in the chain
C18_Witness ==
    /\ last.op = "dealloc"
    /\ BlockLo(last.ptr) \in ChainSet(Chain)
    /\ mem[BlockLo(last.ptr)].next_header /= NULL
    /\ Len(Chain) >= 4

\* ------------------------------------------------------------------- C19
\* C19: the spans [h, h + size) of the Headers are pairwise disjoint and cover
\* exactly the bytes of the registered regions; a split conserves bytes and
\* the carved Header's new end is the allocated Header's address.
C19_SpansTileRegions ==
    /\ \A h1, h2 \in DOMAIN mem :
          h1 /= h2 => Disjoint(h1, h1 + mem[h1].size, h2, h2 + mem[h2].size)
    /\ \A h \in DOMAIN mem :
          \E r \in Regions(memory_map) :
              r.start <= h /\ h + mem[h].size <= r.start + r.size
    /\ \A r \in Regions(memory_map) :
          SumSizes(mem, {h \in DOMAIN mem : r.start <= h /\ h < r.start + r.size}) = r.size
    /\ ChainSet(Chain) = DOMAIN mem
    /\ Succeeded(last) =>
          \E h \in DOMAIN mem :
              /\ mem[h].next_header = BlockLo(last.ret)
              /\ h + mem[h].size = BlockLo(last.ret)

\* a region cut into at least five spans, one of them a padding Header
C19_Witness ==
    /\ Succeeded(last)
    /\ mem[BlockLo(last.ret)].next_header = BlockHi(last.ret, NormSize(last.size))
    /\ \E r \in Regions(memory_map) :
          Cardinality({h \in DOMAIN mem : r.start <= h /\ h < r.start + r.size}) >= 5

\* ------------------------------------------------------------------- C20
\* C20: allocate never returns the same address twice, even after the earlier
\* block was deallocated: a freed block of payload size s' serves only
\* requests with size' + align' <= s' - 32, and a block carved from it starts
\* strictly above its payload address.
C20_NoAddressTwice ==
    [][(AllocStep /\ Succeeded(last')) =>
        /\ last'.ret \notin returned
        /\ \A q \in returned :
              mem'[BlockLo(q)].next_header = BlockLo(last'.ret) =>
                  /\ last'.ret > q
                  /\ NormSize(last'.size) + NormAlign(last'.align)
                        <= (mem[BlockLo(q)].size - HEADER_SIZE) - HEADER_SIZE
      ]_vars

\* a later request was served out of a block that had been handed out and freed
C20_Witness ==
    /\ Succeeded(last)
    /\ \E q \in returned :
          /\ q \notin DOMAIN live
          /\ q /= last.ret
          /\ mem[BlockLo(q)].next_header = BlockLo(last.ret)

\* ------------------------------------------------------------------- C21
\* the bytes of the regions init_with_mmap registered
RECURSIVE RegisteredBytes(_)
RegisteredBytes(rs) ==
    IF rs = {} THEN 0
    ELSE LET r == CHOOSE x \in rs : TRUE IN r.size + RegisteredBytes(rs \ {r})

\* the bytes spanned by the Headers of the chain that starts at h
RECURSIVE ChainBytes(_, _)
ChainBytes(m, h) == IF h = NULL THEN 0 ELSE m[h].size + ChainBytes(m, m[h].next_header)

\* the loop has been refused, and is refused from here on
Exhausted == last.op = "alloc" /\ last.ret = NULL

\* C21: the number of successful allocations is bounded whatever is freed:
\* every successful allocate adds at least one Header of at least 32 bytes to
\* the chain, the Headers keep tiling the same registered bytes, and a caller
\* that forever allocates with one Layout and frees the result is eventually
\* returned null, and null ever after.
C21_EventuallyExhausted ==
    /\ [][(last'.op = "alloc" /\ last'.ret /= NULL /\ last'.ret /= NONE) =>
            /\ DOMAIN mem \subseteq DOMAIN mem'
            /\ Cardinality(DOMAIN mem') >= Cardinality(DOMAIN mem) + 1
            /\ ChainSet(chain_from(mem', first_header')) = DOMAIN mem'
            /\ \A h \in DOMAIN mem' : mem'[h].size >= HEADER_SIZE
            /\ ChainBytes(mem', first_header') = ChainBytes(mem, first_header)
         ]_vars
    /\ [](/\ ChainBytes(mem, first_header) = RegisteredBytes(Regions(memory_map))
          /\ (Cardinality(returned) + Cardinality(Regions(memory_map))) * HEADER_SIZE
                <= RegisteredBytes(Regions(memory_map)))
    /\ <>[]Exhausted

\* the loop was served more than once, freed every block, and is now refused
C21_Witness ==
    /\ Exhausted
    /\ nops = 0
    /\ Cardinality(returned) >= 2
    /\ DOMAIN live = {}
    /\ \A q \in returned : ~mem[BlockLo(q)].is_allocated

====
